---- MODULE Spec2Model ----
(***************************************************************************)
(* micrograd.py: the scalar reverse-mode autodiff engine (class Value),    *)
(* and the Neuron / Layer / MLP wrappers built on its operators.           *)
(*                                                                         *)
(* Every Value object ever constructed is an entry of `heap`; a node is    *)
(* referred to by its index, which is its identity.  Python floats are     *)
(* modelled as exact rationals <<numerator, denominator>> in lowest terms  *)
(* with a positive denominator.                                            *)
(***************************************************************************)
EXTENDS Integers, Sequences, FiniteSets, TLC

VARIABLES
    heap,      \* the Value objects: [data, grad, prev, op, backward]
    result,    \* what the last operator call returned
    lastCall,  \* the last operator call: its name and its two arguments
    pc,        \* "idle", or "loop" inside Value.backward's for loop
    root,      \* the node backward was called on
    topo,      \* the list build_topo recorded
    idx,       \* number of nodes of reversed(topo) the for loop has done
    pre,       \* every node's grad at the moment backward was called
    hist,      \* the finished backward calls: [root, pre, post]
    net,       \* the MLP object: its layers, each a list of neurons
    x,         \* MLP.__call__'s local x
    li,        \* number of layers MLP.__call__ has run
    npc,       \* "new", "built", "call", "returned" or "raised"
    fed        \* what each layer was called with, in order

vars == <<heap, result, lastCall, pc, root, topo, idx, pre, hist,
          net, x, li, npc, fed>>
netVars == <<net, x, li, npc, fed>>

----------------------------------------------------------------------------
(* Bounds *)

\* forward operators are called while fewer than MaxNodes objects exist
MaxNodes == 2
\* number of backward calls in one run
MaxBackward == 2

\* an MLP has 1..MaxIn inputs and 1..MaxLayers layers of 1..MaxWidth neurons
MaxIn == 2
MaxLayers == 3
MaxWidth == 2

\* values of leaves constructed directly, Value(v)
LeafVals == {<<0, 1>>, <<1, 1>>, <<-3, 1>>}
\* plain numbers handed to an operator in place of a Value
Scalars == {<<0, 1>>, <<2, 1>>}
\* the weights np.random.uniform(-1, 1, nin) draws, taken in turn from a
\* position the seed gives
WeightSamples == <<<<-1, 1>>, <<1, 2>>, <<0, 1>>>>
Seeds == {0, 1}

----------------------------------------------------------------------------
(* Exact rational arithmetic standing for float arithmetic *)

Zero == <<0, 1>>
One == <<1, 1>>
MinusOne == <<-1, 1>>

Abs(n) == IF n < 0 THEN -n ELSE n

RECURSIVE GCD(_, _)
GCD(a, b) == IF b = 0 THEN a ELSE GCD(b, a % b)

Norm(n, d) ==
    LET s == IF d < 0 THEN -1 ELSE 1
        g == GCD(Abs(n), Abs(d))
    IN  <<(s * n) \div g, (s * d) \div g>>

QAdd(p, q) == Norm(p[1] * q[2] + q[1] * p[2], p[2] * q[2])
QMul(p, q) == Norm(p[1] * q[1], p[2] * q[2])
QNeg(p) == <<-p[1], p[2]>>
QSub(p, q) == QAdd(p, QNeg(q))
QInv(p) == Norm(p[2], p[1])
QDiv(p, q) == QMul(p, QInv(q))

\* p ** k for an integer k (p # 0 when k < 0)
RECURSIVE QPowInt(_, _)
QPowInt(p, k) ==
    IF k = 0 THEN One
    ELSE IF k > 0 THEN QMul(p, QPowInt(p, k - 1))
    ELSE QInv(QPowInt(p, -k))

\* math.pow(b, e) and b ** e, for the integral exponents the engine passes
MathPow(b, e) == QPowInt(b, e[1])

\* math.log: ln 1 = 0 is its only rational value at a rational argument, so
\* it is defined at 1 only
MathLog(p) == CHOOSE q \in {Zero} : p = One

\* math.exp: e^0 = 1 is its only rational value at a rational argument, so
\* it is defined at 0 only
MathExp(p) == CHOOSE q \in {One} : p = Zero

----------------------------------------------------------------------------
(* class Value *)

NoRule == [rule |-> "none", self |-> 0, other |-> 0]

\* Value.__init__ with self.grad = 1.0
ValueGradOne(h, data, children, op) ==
    Append(h, [data |-> data, grad |-> One, prev |-> children, op |-> op,
               backward |-> NoRule])

\* Value.__init__: the heap with the new object appended; its identity is
\* the new length
Value(h, data, children, op) ==
    Append(h, [data |-> data, grad |-> Zero, prev |-> children, op |-> op,
               backward |-> NoRule])

\* an operator argument: a Value (by identity) or a plain number
V(i) == [isValue |-> TRUE, ref |-> i, num |-> Zero]
S(q) == [isValue |-> FALSE, ref |-> 0, num |-> q]

\* other = other if isinstance(other, Value) else Value(other)
Promote(h, other) ==
    IF other.isValue THEN [heap |-> h, ref |-> other.ref]
    ELSE [heap |-> Value(h, other.num, {}, ""), ref |-> Len(h) + 1]

\* out._backward = _backward, a closure over self and other
SetBackward(h, out, rule, self, other) ==
    [h EXCEPT ![out].backward = [rule |-> rule, self |-> self, other |-> other]]

\* out = Value(...), the last object of h; out._backward = _backward;
\* return out
Closure(h, rule, self, other) ==
    [heap |-> SetBackward(h, Len(h), rule, self, other), out |-> Len(h)]

\* Value.__add__, other promoted
AddPromoted(p, self) ==
    Closure(Value(p.heap, QAdd(p.heap[self].data, p.heap[p.ref].data),
                  {self, p.ref}, "+"),
            "add", self, p.ref)

\* Value.__add__
add(h, self, other) == AddPromoted(Promote(h, other), self)

\* return self + other
AddValue(p, self) == add(p.heap, self, V(p.ref))

\* Value.__radd__
radd(h, self, other) == AddValue(Promote(h, other), self)

\* Value.__mul__, other promoted
MulPromoted(p, self) ==
    Closure(Value(p.heap, QMul(p.heap[self].data, p.heap[p.ref].data),
                  {self, p.ref}, "*"),
            "mul", self, p.ref)

\* Value.__mul__
mul(h, self, other) == MulPromoted(Promote(h, other), self)

\* return self * other
MulValue(p, self) == mul(p.heap, self, V(p.ref))

\* Value.__rmul__
rmul(h, self, other) == MulValue(Promote(h, other), self)

\* self + m, m the product just made
AddProduct(m, self) == add(m.heap, self, V(m.out))

\* self + -1 * other: -1 * other is other.__rmul__(-1)
AddNegated(p, self) == AddProduct(rmul(p.heap, p.ref, S(MinusOne)), self)

\* Value.__sub__
sub(h, self, other) == AddNegated(Promote(h, other), self)

\* Value.__rsub__
rsub(h, self, other) == AddNegated(Promote(h, other), self)

\* Value.__pow__, other promoted
PowPromoted(p, self) ==
    Closure(Value(p.heap, MathPow(p.heap[self].data, p.heap[p.ref].data),
                  {self, p.ref}, "**"),
            "pow", self, p.ref)

\* Value.__pow__
pow(h, self, other) == PowPromoted(Promote(h, other), self)

None == [tag |-> "None", ref |-> 0]
Ref(i) == [tag |-> "Value", ref |-> i]

\* return out, out the last object of h
ReturnLast(h) == [heap |-> h, ret |-> Ref(Len(h))]
\* return out
ReturnOut(r) == [heap |-> r.heap, ret |-> Ref(r.out)]
\* print(...); return None
ReturnNone(h) == [heap |-> h, ret |-> None]

\* Value.__truediv__, other promoted
TrueDivPromoted(p, self) ==
    IF p.heap[p.ref].data # Zero
    THEN ReturnLast(Value(p.heap,
                          QMul(p.heap[self].data,
                               MathPow(p.heap[p.ref].data, MinusOne)),
                          {self, p.ref}, "/"))
    ELSE ReturnNone(p.heap)

\* Value.__truediv__: [heap, ret]
truediv(h, self, other) == TrueDivPromoted(Promote(h, other), self)

\* q * other, q the power just made
MulPower(q, other) == mul(q.heap, q.out, V(other))

\* Value.__rtruediv__, other promoted: self ** -1 * other
RTrueDivPromoted(p, self) ==
    IF p.heap[self].data # Zero
    THEN ReturnOut(MulPower(pow(p.heap, self, S(MinusOne)), p.ref))
    ELSE ReturnNone(p.heap)

\* Value.__rtruediv__: [heap, ret]
rtruediv(h, self, other) == RTrueDivPromoted(Promote(h, other), self)

\* Value.log: [heap, ret]
log(h, self) ==
    IF h[self].data[1] > 0
    THEN ReturnOut(Closure(Value(h, MathLog(h[self].data), {self}, "log"),
                           "log", self, 0))
    ELSE ReturnNone(h)

\* (e2x - 1.) / (e2x + 1.) with e2x = math.exp(2 * d)
TanhData(d) ==
    LET e2x == MathExp(QMul(<<2, 1>>, d))
    IN  QDiv(QSub(e2x, One), QAdd(e2x, One))

\* Value.tanh
tanh(h, self) ==
    Closure(Value(h, TanhData(h[self].data), {self}, "tanh"), "tanh", self, 0)

----------------------------------------------------------------------------
(* Value.backward *)

\* build_topo(v) from the state st = [visited, topo]: the set of states it
\* can end in, one for each order in which the sets v._prev are iterated
RECURSIVE build_topo(_, _, _), IterPrev(_, _, _)
\* build_topo with topo.append(v) moved before the loop over v._prev
build_topo_preorder(h, v, st) ==
    IF v \notin st.visited
    THEN IterPrev(h, h[v].prev,
                  [visited |-> st.visited \cup {v}, topo |-> Append(st.topo, v)])
    ELSE {st}

build_topo(h, v, st) ==
    IF v \notin st.visited
    THEN LET marked == [st EXCEPT !.visited = @ \cup {v}]
         IN  {[s EXCEPT !.topo = Append(@, v)] : s \in IterPrev(h, h[v].prev, marked)}
    ELSE {st}

\* for child in v._prev: build_topo(child), over the children still to come
IterPrev(h, rest, st) ==
    IF rest = {} THEN {st}
    ELSE UNION {UNION {IterPrev(h, rest \ {child}, s) : s \in build_topo(h, child, st)}
                : child \in rest}

\* the lists topo can hold once build_topo(self) has returned
TopoLists(h, self) ==
    {s.topo : s \in build_topo(h, self, [visited |-> {}, topo |-> <<>>])}

\* for node in topo, the reversal forgotten
NotReversed(s) == s

\* reversed(topo)
Reversed(s) == [i \in 1..Len(s) |-> s[Len(s) + 1 - i]]

\* n.grad = q, in place of +=
AddGradOverwrite(h, n, q) == [h EXCEPT ![n].grad = q]

\* n.grad += q
AddGrad(h, n, q) == [h EXCEPT ![n].grad = QAdd(@, q)]

\* node._backward(): the closure the operator stored on the node
CallBackward(h, node) ==
    LET b == h[node].backward
    IN  CASE b.rule = "add" ->
               LET h1 == AddGrad(h, b.self, QMul(One, h[node].grad))
               IN  AddGrad(h1, b.other, QMul(One, h1[node].grad))
          [] b.rule = "mul" ->
               LET h1 == AddGrad(h, b.self, QMul(h[b.other].data, h[node].grad))
               IN  AddGrad(h1, b.other, QMul(h1[b.self].data, h1[node].grad))
          [] b.rule = "pow" ->
               AddGrad(h, b.self,
                       QMul(QMul(h[b.other].data,
                                 MathPow(h[b.self].data, QSub(h[b.other].data, One))),
                            h[node].grad))
          [] b.rule = "log" ->
               AddGrad(h, b.self, QMul(QDiv(One, h[b.self].data), h[node].grad))
          [] b.rule = "tanh" ->
               AddGrad(h, b.self,
                       QMul(QSub(One, MathPow(h[node].data, <<2, 1>>)), h[node].grad))
          [] OTHER -> h

\* self.grad += 1.0, in place of =
SeedAccumulate(h, self) == [h EXCEPT ![self].grad = QAdd(@, One)]

\* self.grad = 1.0
Seed(h, self) == [h EXCEPT ![self].grad = One]

Grads(h) == [i \in 1..Len(h) |-> h[i].grad]

----------------------------------------------------------------------------
(* The engine's operations *)

Nodes == 1..Len(heap)
Args == {V(i) : i \in Nodes} \cup {S(q) : q \in Scalars}
ScalarArgs == {S(q) : q \in Scalars}

CanCall == pc = "idle" /\ npc = "new" /\ Len(heap) < MaxNodes

Call(name, self, other) == [name |-> name, self |-> self, other |-> other]

\* Value(v)
NewValue(v) ==
    /\ CanCall
    /\ heap' = Value(heap, v, {}, "")
    /\ result' = Ref(Len(heap) + 1)
    /\ lastCall' = Call("Value", 0, S(v))
    /\ UNCHANGED <<pc, root, topo, idx, pre, hist, netVars>>

Returns(name, self, other, r) ==
    /\ heap' = r.heap
    /\ result' = r.ret
    /\ lastCall' = Call(name, self, other)
    /\ UNCHANGED <<pc, root, topo, idx, pre, hist, netVars>>

Produces(name, self, other, r) == Returns(name, self, other, ReturnOut(r))

\* self + other
Add(self, other) == CanCall /\ Produces("add", self, other, add(heap, self, other))
\* other + self, other a plain number
RAdd(self, other) == CanCall /\ Produces("radd", self, other, radd(heap, self, other))
\* self * other
Mul(self, other) == CanCall /\ Produces("mul", self, other, mul(heap, self, other))
\* other * self, other a plain number
RMul(self, other) == CanCall /\ Produces("rmul", self, other, rmul(heap, self, other))
\* self - other
Sub(self, other) == CanCall /\ Produces("sub", self, other, sub(heap, self, other))
\* other - self, other a plain number
RSub(self, other) == CanCall /\ Produces("rsub", self, other, rsub(heap, self, other))
\* self / other
TrueDiv(self, other) ==
    CanCall /\ Returns("truediv", self, other, truediv(heap, self, other))
\* other / self, other a plain number
RTrueDiv(self, other) ==
    CanCall /\ Returns("rtruediv", self, other, rtruediv(heap, self, other))
\* self.log(), where math.log is exact or the call is refused
Log(self) ==
    /\ CanCall
    /\ heap[self].data[1] <= 0 \/ heap[self].data = One
    /\ Returns("log", self, S(Zero), log(heap, self))

\* self.backward(), up to the for loop
Backward(self) ==
    /\ pc = "idle" /\ npc = "new"
    /\ Len(hist) < MaxBackward
    /\ \E t \in TopoLists(heap, self) : topo' = t
    /\ idx' = 0
    /\ heap' = Seed(heap, self)
    /\ pre' = Grads(heap)
    /\ root' = self
    /\ pc' = "loop"
    /\ UNCHANGED <<result, lastCall, hist, netVars>>

\* one iteration of for node in reversed(topo); after the last, backward returns
BackwardStep ==
    /\ pc = "loop"
    /\ heap' = CallBackward(heap, Reversed(topo)[idx + 1])
    /\ IF idx + 1 = Len(topo)
       THEN /\ pc' = "idle"
            /\ hist' = Append(hist, [root |-> root, pre |-> pre, post |-> Grads(heap')])
            /\ root' = 0 /\ topo' = <<>> /\ idx' = 0 /\ pre' = <<>>
       ELSE /\ idx' = idx + 1
            /\ UNCHANGED <<pc, hist, root, topo, pre>>
    /\ UNCHANGED <<result, lastCall, netVars>>

Init ==
    /\ heap = <<>>
    /\ result = None
    /\ lastCall = Call("", 0, S(Zero))
    /\ pc = "idle"
    /\ root = 0
    /\ topo = <<>>
    /\ idx = 0
    /\ pre = <<>>
    /\ hist = <<>>
    /\ net = <<>>
    /\ x = [isList |-> TRUE, refs |-> <<>>]
    /\ li = 0
    /\ npc = "new"
    /\ fed = <<>>

Next ==
    \/ \E v \in LeafVals : NewValue(v)
    \/ \E self \in Nodes, other \in Args : Add(self, other)
    \/ \E self \in Nodes, other \in ScalarArgs : RAdd(self, other)
    \/ \E self \in Nodes, other \in Args : Mul(self, other)
    \/ \E self \in Nodes, other \in ScalarArgs : RMul(self, other)
    \/ \E self \in Nodes, other \in Args : Sub(self, other)
    \/ \E self \in Nodes, other \in ScalarArgs : RSub(self, other)
    \/ \E self \in Nodes, other \in Args : TrueDiv(self, other)
    \/ \E self \in Nodes, other \in ScalarArgs : RTrueDiv(self, other)
    \/ \E self \in Nodes : Log(self)
    \/ \E self \in Nodes : Backward(self)
    \/ BackwardStep

Spec == Init /\ [][Next]_vars

----------------------------------------------------------------------------
(* class Neuron, class Layer, class MLP *)

\* math.exp is exact at 0 only, so the nets built here have bias 0 and are
\* called on inputs of value 0: every pre-activation is 0 and tanh(0) = 0.

\* np.random.uniform(-1, 1, nin): the draws follow the number of objects made
UniformVector(seed, h, nin) ==
    [j \in 1..nin |-> WeightSamples[((seed + Len(h) + j) % Len(WeightSamples)) + 1]]
\* np.random.uniform(-1, 1)
UniformScalar == Zero

\* [Value(_) for _ in samples], from the k-th on, refs the list so far:
\* [heap, refs]
RECURSIVE Values(_, _, _, _)
Values(h, samples, k, refs) ==
    IF k > Len(samples) THEN [heap |-> h, refs |-> refs]
    ELSE Values(Value(h, samples[k], {}, ""), samples, k + 1,
                Append(refs, Len(h) + 1))

\* self.b = Value(np.random.uniform(-1, 1)), ws the weights just made
WithBias(ws) ==
    [heap |-> Value(ws.heap, UniformScalar, {}, ""),
     obj |-> [w |-> ws.refs, b |-> Len(ws.heap) + 1]]

\* Neuron.__init__: [heap, obj]
NewNeuron(h, seed, nin) ==
    WithBias(Values(h, UniformVector(seed, h, nin), 1, <<>>))

\* Layer.__init__: [Neuron(nin) for _ in range(nout)], nout neurons still to
\* make, acc the list so far: [heap, obj]
RECURSIVE NewLayer(_, _, _, _, _), NewLayerAfter(_, _, _, _, _)
NewLayer(h, seed, nin, nout, acc) ==
    IF nout = 0 THEN [heap |-> h, obj |-> acc]
    ELSE NewLayerAfter(NewNeuron(h, seed, nin), seed, nin, nout, acc)

NewLayerAfter(n, seed, nin, nout, acc) ==
    NewLayer(n.heap, seed, nin, nout - 1, Append(acc, n.obj))

\* MLP.__init__: [Layer(size[_], size[_+1]) for _ in range(len(nouts))], from
\* the k-th layer on, acc the list so far: [heap, obj]
RECURSIVE NewLayers(_, _, _, _, _), NewLayersAfter(_, _, _, _, _)
NewLayers(h, seed, size, k, acc) ==
    IF k + 1 > Len(size) THEN [heap |-> h, obj |-> acc]
    ELSE NewLayersAfter(NewLayer(h, seed, size[k], size[k + 1], <<>>),
                        seed, size, k, acc)

NewLayersAfter(l, seed, size, k, acc) ==
    NewLayers(l.heap, seed, size, k + 1, Append(acc, l.obj))

Min(a, b) == IF a < b THEN a ELSE b

\* what a call hands over: one Value, or a list of them
One1(ref) == [isList |-> FALSE, refs |-> <<ref>>]
List(refs) == [isList |-> TRUE, refs |-> refs]

\* sum((w * x for w, x in zip(self.w, x)), self.b), from the k-th pair on with
\* acc the sum so far: each product is made as sum reaches it
RECURSIVE SumProducts(_, _, _, _, _), SumAfter(_, _, _, _)
SumProducts(h, w, xs, k, acc) ==
    IF k > Min(Len(w), Len(xs)) THEN [heap |-> h, out |-> acc]
    ELSE SumAfter(AddProduct(mul(h, w[k], V(xs[k])), acc), w, xs, k)

SumAfter(a, w, xs, k) == SumProducts(a.heap, w, xs, k + 1, a.out)

\* out = act.tanh(); return out
Activation(act) == tanh(act.heap, act.out)

\* return out
Returned(t) == [heap |-> t.heap, out |-> t.out, err |-> ""]

\* Neuron.__call__: [heap, out, err]; zip raises TypeError on a Value, which
\* is not iterable
CallNeuron(h, n, arg) ==
    IF ~arg.isList THEN [heap |-> h, out |-> 0, err |-> "TypeError"]
    ELSE Returned(Activation(SumProducts(h, n.w, arg.refs, 1, n.b)))

\* outs = [n(x) for n in self.neurons], from the k-th neuron on, outs the list
\* so far: [heap, outs, err]
RECURSIVE Outs(_, _, _, _, _), OutsAfter(_, _, _, _, _)
Outs(h, neurons, arg, k, outs) ==
    IF k > Len(neurons) THEN [heap |-> h, outs |-> outs, err |-> ""]
    ELSE OutsAfter(CallNeuron(h, neurons[k], arg), neurons, arg, k, outs)

OutsAfter(o, neurons, arg, k, outs) ==
    IF o.err # "" THEN [heap |-> o.heap, outs |-> <<>>, err |-> o.err]
    ELSE Outs(o.heap, neurons, arg, k + 1, Append(outs, o.out))

\* return outs, whatever its length
LayerReturnList(outs) == [isList |-> TRUE, refs |-> outs]

\* return outs[0] if len(outs) == 1 else outs
LayerReturn(outs) == IF Len(outs) = 1 THEN One1(outs[1]) ELSE List(outs)

\* Layer.__call__, the list outs made or an exception raised
LayerResult(r) ==
    [heap |-> r.heap, err |-> r.err,
     ret |-> IF r.err # "" THEN List(<<>>) ELSE LayerReturn(r.outs)]

\* Layer.__call__: [heap, ret, err]
CallLayer(h, neurons, arg) == LayerResult(Outs(h, neurons, arg, 1, <<>>))

\* the lists nouts an MLP is built with
RECURSIVE Sizes(_)
Sizes(n) ==
    IF n = 0 THEN {<<>>}
    ELSE {<<a>> \o s : a \in 1..MaxWidth, s \in Sizes(n - 1)}
LayerSizes == UNION {Sizes(n) : n \in 1..MaxLayers}

\* self.layers = [...]
Built(m) == heap' = m.heap /\ net' = m.obj

\* MLP(nin, nouts)
NewMLP(seed, nin, nouts) ==
    /\ npc = "new" /\ heap = <<>>
    /\ Built(NewLayers(heap, seed, <<nin>> \o nouts, 1, <<>>))
    /\ npc' = "built"
    /\ UNCHANGED <<result, lastCall, pc, root, topo, idx, pre, hist, x, li, fed>>

\* the argument list the caller made
Given(xs) == heap' = xs.heap /\ x' = List(xs.refs)

\* n(x) with x a list of len fresh Values of value 0: MLP.__call__ up to the
\* for loop
CallMLP(len) ==
    /\ npc = "built"
    /\ Given(Values(heap, [j \in 1..len |-> Zero], 1, <<>>))
    /\ li' = 0
    /\ npc' = "call"
    /\ UNCHANGED <<result, lastCall, pc, root, topo, idx, pre, hist, net, fed>>

\* x = layer(x), or the exception layer(x) raised leaves MLP.__call__
Assigned(r) ==
    /\ heap' = r.heap
    /\ IF r.err # ""
       THEN npc' = "raised" /\ UNCHANGED <<x, li>>
       ELSE x' = r.ret /\ li' = li + 1 /\ UNCHANGED npc

\* one iteration of for layer in self.layers: x = layer(x)
LayerStep ==
    /\ npc = "call"
    /\ li < Len(net)
    /\ Assigned(CallLayer(heap, net[li + 1], x))
    /\ fed' = Append(fed, x)
    /\ UNCHANGED <<result, lastCall, pc, root, topo, idx, pre, hist, net>>

\* return x
ReturnMLP ==
    /\ npc = "call"
    /\ li = Len(net)
    /\ npc' = "returned"
    /\ UNCHANGED <<heap, result, lastCall, pc, root, topo, idx, pre, hist,
                   net, x, li, fed>>

NextNet ==
    \/ \E seed \in Seeds, nin \in 1..MaxIn, nouts \in LayerSizes :
          NewMLP(seed, nin, nouts)
    \/ \E len \in 1..MaxIn : CallMLP(len)
    \/ LayerStep
    \/ ReturnMLP

SpecNet == Init /\ [][NextNet]_vars

----------------------------------------------------------------------------
(* Notions the properties are stated with *)

\* the nodes reachable from r through operand edges, r included
RECURSIVE Reach(_, _)
Reach(h, r) == {r} \cup UNION {Reach(h, c) : c \in h[r].prev}

\* the sum of the second components of a set of pairs
RECURSIVE SumQ(_)
SumQ(P) ==
    IF P = {} THEN Zero
    ELSE LET e == CHOOSE e \in P : TRUE IN QAdd(e[2], SumQ(P \ {e}))

\* d(c.value)/d(n.value) for an operand n of the sum or product c, counting
\* n once for each operand position it fills
Partial(h, c, n) ==
    LET ops == h[c].prev
    IN  IF n \notin ops THEN Zero
        ELSE IF h[c].op = "+" THEN (IF ops = {n} THEN <<2, 1>> ELSE One)
        ELSE IF h[c].op = "*"
             THEN (IF ops = {n} THEN QMul(<<2, 1>>, h[n].data)
                   ELSE h[CHOOSE m \in ops : m # n].data)
        ELSE Zero

\* the sum, over the operand paths from r to n, of the path's weight times
\* the product of the local partials along it; a path's weight is w plus inc
\* for each of its edges
RECURSIVE PathSum(_, _, _, _, _)
PathSum(h, r, n, w, inc) ==
    IF r = n THEN <<w, 1>>
    ELSE SumQ({<<c, QMul(Partial(h, r, c), PathSum(h, c, n, w + inc, inc))>>
               : c \in h[r].prev})

\* d(r.value)/d(n.value)
Deriv(h, r, n) == PathSum(h, r, n, 1, 0)

AllZero(g) == \A i \in 1..Len(g) : g[i] = Zero

\* the graph under r is made of leaves, sums and products only
Arithmetic(h, r) == \A n \in Reach(h, r) : h[n].op \in {"", "+", "*"}

Runs == 1..Len(hist)

----------------------------------------------------------------------------
(* Properties *)

\* C1: after backward(root) on a graph of leaves, sums and products (which is
\* what add, multiply and subtract build) whose gradients were all 0, the
\* root's gradient is 1 and every reachable node's gradient is the partial
\* derivative of the root's value with respect to that node's value.
C1_Gradients ==
    \A k \in Runs :
        LET e == hist[k]
        IN  (AllZero(e.pre) /\ Arithmetic(heap, e.root)) =>
                /\ e.post[e.root] = One
                /\ \A n \in Reach(heap, e.root) : e.post[n] = Deriv(heap, e.root, n)

\* a finished backward from a root under which one node fills both operand
\* positions of a node or is the operand of two nodes, with a non-zero gradient
C1_Witness ==
    \E k \in Runs :
        LET e == hist[k]
        IN  /\ AllZero(e.pre) /\ Arithmetic(heap, e.root)
            /\ \E n \in Reach(heap, e.root) :
                 /\ e.post[n] \notin {Zero, One}
                 /\ \/ \E c \in Reach(heap, e.root) : heap[c].prev = {n}
                    \/ Cardinality({c \in Reach(heap, e.root) : n \in heap[c].prev}) > 1

\* two backward calls in a row on one root, the first from gradients all 0,
\* the second from the gradients the first left
Twice(k) ==
    /\ k + 1 \in Runs
    /\ hist[k].root = hist[k + 1].root
    /\ AllZero(hist[k].pre)
    /\ \A i \in 1..Len(hist[k].post) : hist[k + 1].pre[i] = hist[k].post[i]

C3_TopoOrder ==
    pc = "loop" =>
        /\ {topo[i] : i \in 1..Len(topo)} = Reach(heap, root)
        /\ \A i, j \in 1..Len(topo) : i # j => topo[i] # topo[j]
        /\ \A i \in 1..Len(topo) :
             \A c \in heap[topo[i]].prev : \E j \in 1..(i - 1) : topo[j] = c
        /\ topo[Len(topo)] = root

\* a recorded list for a root under which some node is the operand of two nodes
C3_Witness ==
    /\ pc = "loop"
    /\ \E n \in Reach(heap, root) :
         Cardinality({c \in Reach(heap, root) : n \in heap[c].prev}) > 1

\* C8: within one backward call no node's rule is invoked twice, every
\* reachable node's rule has been invoked when the call returns, the rules of
\* all reachable consumers of a node have been invoked before the node's own
\* rule is, and a node's gradient does not change once its rule is running.
C8_RuleOrder ==
    [][pc = "loop" =>
          LET rev == Reversed(topo)
              node == rev[idx + 1]
              done == {rev[j] : j \in 1..idx}
          IN  /\ node \notin done
              /\ \A c \in Reach(heap, root) : node \in heap[c].prev => c \in done
              /\ \A n \in done \cup {node} : heap'[n].grad = heap[n].grad
              /\ pc' = "idle" => done \cup {node} = Reach(heap, root)]_vars

\* the loop has invoked two rules and is about to invoke the rule of a node
\* that two reachable nodes have as an operand
C8_Witness ==
    /\ pc = "loop"
    /\ idx >= 2
    /\ LET node == Reversed(topo)[idx + 1]
       IN  Cardinality({c \in Reach(heap, root) : node \in heap[c].prev}) > 1

\* C9: no step changes the value or the operand set of an existing node; an
\* operator call leaves every existing gradient alone and creates nodes with
\* gradient 0; a step of backward(root) changes no gradient outside the nodes
\* reachable from root, and creates nothing.
C9_Frame ==
    [][/\ Len(heap') >= Len(heap)
       /\ \A i \in 1..Len(heap) :
            heap'[i].data = heap[i].data /\ heap'[i].prev = heap[i].prev
       /\ (pc = "idle" /\ pc' = "idle") =>
            /\ \A i \in 1..Len(heap) : heap'[i].grad = heap[i].grad
            /\ \A i \in (Len(heap) + 1)..Len(heap') : heap'[i].grad = Zero
       /\ (pc = "loop" \/ pc' = "loop") =>
            LET r == IF pc = "loop" THEN root ELSE root'
            IN  /\ Len(heap') = Len(heap)
                /\ \A i \in 1..Len(heap) :
                     i \notin Reach(heap, r) => heap'[i].grad = heap[i].grad]_vars

\* a second backward call has run from a root that does not reach a node whose
\* gradient the first call had set, and an operator has been called since
C9_Witness ==
    /\ Len(hist) >= 2
    /\ \E n \in 1..Len(hist[2].pre) :
         /\ n \notin Reach(heap, hist[2].root)
         /\ hist[2].pre[n] # Zero
         /\ hist[2].post[n] = hist[2].pre[n]

ArgData(a) == IF a.isValue THEN heap[a.ref].data ELSE a.num

Divisions == {"truediv", "rtruediv"}

\* the value of the divisor of the last call, a division
DivisorData ==
    IF lastCall.name = "truediv" THEN ArgData(lastCall.other)
    ELSE heap[lastCall.self].data

\* C4: a division by a divisor of value 0 returns the error DivisionByZero and
\* the log of a value <= 0 returns the error InvalidLogDomain.
C4_ExplicitError ==
    /\ (lastCall.name \in Divisions /\ DivisorData = Zero) =>
            result.tag = "DivisionByZero"
    /\ (lastCall.name = "log" /\ heap[lastCall.self].data[1] <= 0) =>
            result.tag = "InvalidLogDomain"

\* the dividend and the divisor node of the last call, a division that
\* returned a node
Dividend ==
    IF lastCall.name = "rtruediv" THEN result.ref - 3 ELSE lastCall.self
Divisor ==
    IF lastCall.name = "rtruediv" THEN lastCall.self
    ELSE IF lastCall.other.isValue THEN lastCall.other.ref ELSE result.ref - 1

\* C5: backward from out = a / b, called with all gradients 0, leaves
\* a.gradient = b.value^-1 and b.gradient = -a.value * b.value^-2 (a and b
\* distinct nodes), in each of the three operand forms.
C5_DivideGradients ==
    \A k \in Runs :
        (/\ lastCall.name \in Divisions
         /\ result.tag = "Value"
         /\ hist[k].root = result.ref
         /\ Len(hist[k].pre) = Len(heap)
         /\ AllZero(hist[k].pre)
         /\ Dividend # Divisor) =>
            /\ hist[k].post[Dividend] = QInv(heap[Divisor].data)
            /\ hist[k].post[Divisor] =
                 QNeg(QMul(heap[Dividend].data, QPowInt(heap[Divisor].data, -2)))

\* C6: the node a subtraction returns has the value left - right, whether it
\* was called as node - node, node - number or number - node.
C6_SubtractValue ==
    /\ lastCall.name = "sub" =>
            heap[result.ref].data =
                QSub(heap[lastCall.self].data, ArgData(lastCall.other))
    /\ lastCall.name = "rsub" =>
            heap[result.ref].data =
                QSub(lastCall.other.num, heap[lastCall.self].data)

\* a is the sum of the bias of n and the products of its first k weights
\* with the first k of xs, added in that order
RECURSIVE WeightedSum(_, _, _, _, _)
WeightedSum(h, a, n, xs, k) ==
    IF k = 0 THEN a = n.b
    ELSE /\ h[a].op = "+"
         /\ \E p, b \in h[a].prev :
              /\ h[a].prev = {p, b}
              /\ h[p].op = "*"
              /\ h[p].prev = {n.w[k], xs[k]}
              /\ WeightedSum(h, b, n, xs, k - 1)

\* o is the neuron n's output on the inputs xs: the tanh of the sum of its
\* bias and of its weights times their inputs (as many as there are of both)
NeuronOutput(h, o, n, xs) ==
    /\ h[o].op = "tanh"
    /\ \E a \in h[o].prev :
         h[o].prev = {a} /\ WeightedSum(h, a, n, xs, Min(Len(n.w), Len(xs)))

\* C7: a layer of one neuron returns that neuron's output on the layer's input
\* as a single node, and a layer of more neurons returns the list of its
\* neurons' outputs on that input, in order.
C7_LayerArity ==
    (npc \in {"call", "returned"} /\ li >= 1) =>
        LET neurons == net[li]
            arg == fed[li].refs
        IN  IF Len(neurons) = 1
            THEN ~x.isList /\ NeuronOutput(heap, x.refs[1], neurons[1], arg)
            ELSE /\ x.isList
                 /\ Len(x.refs) = Len(neurons)
                 /\ \A i \in 1..Len(neurons) :
                      NeuronOutput(heap, x.refs[i], neurons[i], arg)

\* a layer of one neuron and a layer of several have both returned
C7_Witness ==
    /\ npc = "call"
    /\ li >= 2
    /\ Len(net[li]) = 1
    /\ Len(net[li - 1]) > 1

\* C10: the forward pass of an MLP called on a list of n_inputs nodes raises
\* nothing, and every layer after the first is called with a list of as many
\* nodes as the layer before it has neurons.
C10_Chaining ==
    (Len(fed) >= 1 /\ Len(fed[1].refs) = Len(net[1][1].w)) =>
        /\ npc # "raised"
        /\ \A k \in 2..Len(fed) :
             fed[k].isList /\ Len(fed[k].refs) = Len(net[k - 1])

====
